---- MODULE Spec2Model ----
(***************************************************************************)
(* A model of src/peer.go: one Peer of a raft leader, its heartbeat loops, *)
(* the flush that chooses between append-entries and the snapshot          *)
(* hand-off, and the reconciliation of prevLogIndex against the response.  *)
(*                                                                         *)
(* The owning server (term, log, snapshot) and the transport are the       *)
(* environment: the server's actions change term and log, the transport's  *)
(* answers are drawn from small sets.                                      *)
(***************************************************************************)
EXTENDS Integers, Sequences, FiniteSets, TLC

\* ---------------------------------------------------------------- bounds

\* calls of startHeartbeat in one behaviour; loop k is the goroutine of call k
MaxStarts == 2
\* highest term the server reaches
MaxTerm == 2
\* highest log index the server appends
MaxLog == 2
\* highest index a peer reports or a caller sets
MaxIdx == 2
\* cap on failedHeartbeats (the code has none)
MaxFailed == 2
\* number of heartbeat intervals a caller may set
MaxInterval == 2
\* server.maxLogEntriesPerRequest
MaxLogEntriesPerRequest == 2
\* bits of the model's unsigned word for prevLogIndex (uint64 in the code)
UintBits == 3
\* peers solicited for a vote in one election round
MaxPeers == 3

Loops == 1..MaxStarts
Terms == 1..MaxTerm
Indexes == 0..MaxIdx
\* the intervals are odd numbers of time units, so that a period
\* interval * 2^k shows its interval and its k
Intervals == {2 * i + 1 : i \in 1..MaxInterval}
FirstInterval == CHOOSE i \in Intervals : \A j \in Intervals : i <= j
Peers == 1..MaxPeers

\* ------------------------------------------------------- pure operators

RECURSIVE Pow2(_)
Pow2(k) == IF k = 0 THEN 1 ELSE 2 * Pow2(k - 1)

UintMod == Pow2(UintBits)

Min(a, b) == IF a < b THEN a ELSE b

\* p.prevLogIndex-- on a uint64
Dec(x) == (x + UintMod - 1) % UintMod

\* heartbeatInterval * 2^failedHeartbeats
heartbeatDuration(interval, failed) == interval * Pow2(failed)

\* log.getEntriesAfter(index, max): nil when index lies before the start of
\* the retained log, else up to max entries after index and the term at index
TermAt(lg, i) == IF i >= 1 /\ i <= Len(lg) THEN lg[i] ELSE 0

getEntriesAfter(lg, start, index, max) ==
    IF index < start
    THEN [nil |-> TRUE, entries |-> <<>>, prevTerm |-> 0]
    ELSE LET last == Min(Len(lg), index + max)
             n == IF last > index THEN last - index ELSE 0
         IN [nil |-> FALSE,
             entries |-> [j \in 1..n |-> [index |-> index + j, term |-> lg[index + j]]],
             prevTerm |-> TermAt(lg, index)]

\* flush's choice of request (peer.go 174-178): entries != nil. Below, each
\* operator named X_Variant is X with one plausible slip, kept to show that
\* the properties tell the two apart.
FlushSendsAppend_EmptyIsNil(got) == ~got.nil /\ Len(got.entries) > 0
FlushSendsAppend(got) == ~got.nil

\* success branch (peer.go 206-216)
SuccessUpdate_First(prev, entries) ==
    IF Len(entries) > 0 THEN entries[1].index ELSE prev
SuccessUpdate(prev, entries) ==
    IF Len(entries) > 0 THEN entries[Len(entries)].index ELSE prev

\* current-term marker (peer.go 207-215)
AppendMarker_NoTermCheck(success, entries, term) ==
    success /\ Len(entries) > 0
AppendMarker(success, entries, term) ==
    success /\ Len(entries) > 0 /\ entries[Len(entries)].term = term

\* third failure rule (peer.go 238-249)
DecrementClamp_NoGuard(prev, idx) ==
    LET d == Dec(prev) IN IF d > idx THEN idx ELSE d
DecrementClamp(prev, idx) ==
    IF prev > 0
    THEN LET d == Dec(prev) IN IF d > idx THEN idx ELSE d
    ELSE prev

\* failure branch (peer.go 219-250): stale term, lost acknowledgment, decrement
FailureUpdate_NoTermCheck(prev, reqTerm, r, localTerm) ==
    IF r.term > localTerm THEN prev
    ELSE IF r.commitIndex > prev THEN r.commitIndex
    ELSE DecrementClamp(prev, r.index)
FailureUpdate_NoStaleRule(prev, reqTerm, r, localTerm) ==
    IF r.term = reqTerm /\ r.commitIndex >= prev THEN r.commitIndex
    ELSE DecrementClamp(prev, r.index)
FailureUpdate_RecoverToIndex(prev, reqTerm, r, localTerm) ==
    IF r.term > localTerm THEN prev
    ELSE IF r.term = reqTerm /\ r.commitIndex >= prev THEN r.index
    ELSE DecrementClamp(prev, r.index)
FailureUpdate(prev, reqTerm, r, localTerm) ==
    IF r.term > localTerm THEN prev
    ELSE IF r.term = reqTerm /\ r.commitIndex >= prev THEN r.commitIndex
    ELSE DecrementClamp(prev, r.index)

Reconcile(prev, rq, r, localTerm) ==
    IF r.success THEN SuccessUpdate(prev, rq.entries)
    ELSE FailureUpdate(prev, rq.term, r, localTerm)

\* sendSnapshotRecoveryRequest (peer.go 293-298): prevLogIndex after the
\* recovery response
RecoveryUpdate_Always(prev, lastIndex, success) == lastIndex
RecoveryUpdate(prev, lastIndex, success) == IF success THEN lastIndex ELSE prev

\* resp.peer = p.Name (peer.go 254)
AttachPeer_Forgot(r) == r
AttachPeer(r) == [r EXCEPT !.peer = TRUE]

\* p.server.sendAsync(resp) (peer.go 256, 300): one more response, of the
\* given type, handed to the server by the step
sendAsync(handed, type, r) == Append(handed, [type |-> type, resp |-> r])

\* ---------------------------------------------------------------- state

VARIABLES
    currentTerm,        \* server.currentTerm
    log,                \* server.log: the term of each entry, by index
    startIndex,         \* server.log start = server.snapshot.LastIndex (0: no snapshot)
    prevLogIndex,       \* Peer.prevLogIndex
    mutex,              \* Peer.mutex: 0 free, else the goroutine holding it
    stopChan,           \* Peer.stopChan: 0 nil, else the channel of start k
    heartbeatInterval,  \* Peer.heartbeatInterval
    heartbeatTicker,    \* Peer.heartbeatTicker: 0 nil, else the ticker's period
    failedHeartbeats,   \* Peer.failedHeartbeats
    pc,                 \* each heartbeat goroutine's position
    loc,                \* each heartbeat goroutine's locals
    ctl,                \* the caller of startHeartbeat / stopHeartbeat
    hist,               \* observations of the last step and of the stop signals
    vote,               \* each sendVoteRequest goroutine's position and response
    results             \* the channel c of sendVoteRequest: what was sent on it

vars == <<currentTerm, log, startIndex, prevLogIndex, mutex, stopChan,
          heartbeatInterval, heartbeatTicker, failedHeartbeats, pc, loc, ctl, hist,
          vote, results>>

server == <<currentTerm, log, startIndex>>
timer == <<heartbeatTicker, failedHeartbeats>>
election == <<vote, results>>
replication == <<server, prevLogIndex, mutex, stopChan, heartbeatInterval,
                 timer, pc, loc, ctl, hist>>

NoReq == [term |-> 0, prevLogIndex |-> 0, prevLogTerm |-> 0, entries |-> <<>>]
NoResp == [success |-> FALSE, term |-> 0, commitIndex |-> 0, index |-> 0,
           append |-> FALSE, peer |-> FALSE]

\* what one reconciliation read and wrote: the request and the response, the
\* server's term, and prevLogIndex before and after
NoRec == [done |-> FALSE, req |-> NoReq, resp |-> NoResp, localTerm |-> 0,
          before |-> 0, after |-> 0]

\* locals of one goroutine: the stop channel it captured, whether the flush in
\* progress is the one after a stop signal, the request and response in hand,
\* the recovery request's LastIndex, the requests sent by the flush in
\* progress, and the prevLogIndex that flush read
NoLoc == [stopChan |-> 0, final |-> FALSE, req |-> NoReq, resp |-> NoResp,
          lastIndex |-> 0, sends |-> <<>>, prev |-> 0]

\* what a step of the snapshot hand-off was: the phase and its outcome, and
\* the LastIndex of the recovery request in hand
NoSnap == [out |-> "none", last |-> 0]

\* one sendVoteRequest call: its position, and whether the transport
\* returned a response
NoVote == [pc |-> "idle", responded |-> FALSE, granted |-> FALSE]

\* per goroutine: the stop signal consumed, the flushes begun and the ticks
\* served after it
NoStop == [sig |-> "none", flushes |-> 0, ticks |-> 0]

FlushPcs == {"flush", "ae_wait", "ae_locked", "snap_wait", "rec_wait"}

\* newPeer (peer.go 35-42), on a server in its first term whose log is empty
\* or holds one entry, compacted into a snapshot or not
Init ==
    /\ currentTerm = 1
    /\ log \in {<<>>, <<1>>}
    /\ startIndex \in 0..Len(log)
    /\ prevLogIndex = 0
    /\ mutex = 0
    /\ stopChan = 0
    /\ heartbeatInterval = FirstInterval
    /\ heartbeatTicker = 0
    /\ failedHeartbeats = 0
    /\ pc = [l \in Loops |-> "none"]
    /\ loc = [l \in Loops |-> NoLoc]
    /\ ctl = [state |-> "idle", flush |-> FALSE, starts |-> 0, active |-> 0]
    /\ hist = [event |-> "none", lockFree |-> {}, rec |-> NoRec,
               stop |-> [l \in Loops |-> NoStop],
               fwd |-> <<>>, snap |-> NoSnap, clones |-> <<>>]
    /\ vote = [q \in Peers |-> NoVote]
    /\ results = <<>>

\* what the step just taken was: "silent" when it ended a flush in which the
\* peer returned nothing, "answered" when it ended a flush in which the peer
\* returned a response; the Peer fields it accessed without p.mutex held; of
\* a step that reconciled a response, what it read and wrote; what the step
\* handed to server.sendAsync; what the step was in the snapshot hand-off;
\* and the copies made by the calls of clone that ran back to back up to here
Ev(h, e, free) ==
    [h EXCEPT !.event = e, !.lockFree = free, !.rec = NoRec, !.fwd = <<>>,
              !.snap = NoSnap, !.clones = <<>>]
Quiet == Ev(hist, "none", {})

\* an access of a Peer field by goroutine l while p.mutex is held by holder
Access(l, holder, field) == IF holder = l THEN {} ELSE {field}

\* ------------------------------------------------------ the environment

\* server: a new term
IncTerm ==
    /\ currentTerm < MaxTerm
    /\ currentTerm' = currentTerm + 1
    /\ hist' = Quiet
    /\ UNCHANGED <<election, log, startIndex, prevLogIndex, mutex, stopChan,
                   heartbeatInterval, timer, pc, loc, ctl>>

\* server: an entry of the current term is appended to the log
AppendLog ==
    /\ Len(log) < MaxLog
    /\ log' = Append(log, currentTerm)
    /\ hist' = Quiet
    /\ UNCHANGED <<election, currentTerm, startIndex, prevLogIndex, mutex, stopChan,
                   heartbeatInterval, timer, pc, loc, ctl>>

\* server: a snapshot through index i replaces the entries up to i
Compact ==
    \E i \in 1..MaxLog :
        /\ startIndex < i
        /\ i <= Len(log)
        /\ startIndex' = i
        /\ hist' = Quiet
        /\ UNCHANGED <<election, currentTerm, log, prevLogIndex, mutex, stopChan,
                       heartbeatInterval, timer, pc, loc, ctl>>

\* setHeartbeatInterval (peer.go 51-53)
setHeartbeatInterval ==
    \E d \in Intervals :
        /\ d # heartbeatInterval
        /\ heartbeatInterval' = d
        /\ hist' = Quiet
        /\ UNCHANGED <<election, server, prevLogIndex, mutex, stopChan, timer, pc, loc, ctl>>

\* setPrevLogIndex (peer.go 67-71): Lock, write, Unlock
setPrevLogIndex ==
    \E v \in Indexes :
        /\ mutex = 0
        /\ v # prevLogIndex
        /\ prevLogIndex' = v
        /\ hist' = Quiet
        /\ UNCHANGED <<election, server, mutex, stopChan, heartbeatInterval, timer, pc,
                       loc, ctl>>

\* the Peer as a struct value (peer.go 16-26); server is whether the peer is
\* attached to a server, and Name and ConnectionString never change
PeerName == "peer"
PeerConnectionString == "peer:7001"
ThePeer ==
    [server |-> TRUE, Name |-> PeerName,
     ConnectionString |-> PeerConnectionString,
     prevLogIndex |-> prevLogIndex, stopChan |-> stopChan,
     heartbeatInterval |-> heartbeatInterval,
     heartbeatTicker |-> heartbeatTicker,
     failedHeartbeats |-> failedHeartbeats]

\* the struct literal of clone (peer.go 123-127): the fields it does not
\* name are zero
Clone_Whole(p) == [p EXCEPT !.server = FALSE]
Clone(p) ==
    [server |-> FALSE, Name |-> p.Name, ConnectionString |-> p.ConnectionString,
     prevLogIndex |-> p.prevLogIndex, stopChan |-> 0, heartbeatInterval |-> 0,
     heartbeatTicker |-> 0, failedHeartbeats |-> 0]

\* the copies of the calls of clone that ran back to back: the last two
LastTwo(copies, c) ==
    IF Len(copies) < 2 THEN Append(copies, c) ELSE <<copies[2], c>>

\* clone (peer.go 120-128): Lock, the copy, and Unlock on return
clone ==
    /\ mutex = 0
    /\ hist' = [Ev(hist, "none", {})
                EXCEPT !.clones = LastTwo(hist.clones, Clone(ThePeer))]
    /\ UNCHANGED <<election, server, prevLogIndex, mutex, stopChan,
                   heartbeatInterval, timer, pc, loc, ctl>>

\* -------------------------------------------------- start, stop, the loop

\* startHeartbeat (peer.go 84-89) up to the wait on c: a new stop channel and
\* a new goroutine. The caller alternates start and stop, and starts at most
\* limit times.
startHeartbeat(limit) ==
    /\ ctl.state = "idle"
    /\ ctl.active = 0
    /\ ctl.starts < limit
    /\ LET k == ctl.starts + 1 IN
        /\ stopChan' = k
        /\ pc' = [pc EXCEPT ![k] = "spawned"]
        /\ ctl' = [ctl EXCEPT !.state = "starting", !.starts = k, !.active = k]
    /\ hist' = Quiet
    /\ UNCHANGED <<election, server, prevLogIndex, mutex, heartbeatInterval, timer, loc>>

\* heartbeat (peer.go 136-138): the goroutine reads p.stopChan and hands
\* true to c, which lets startHeartbeat return
LoopHandshake(l) ==
    /\ pc[l] = "spawned"
    /\ ctl.state = "starting"
    /\ loc' = [loc EXCEPT ![l].stopChan = stopChan]
    /\ pc' = [pc EXCEPT ![l] = "mkticker"]
    /\ ctl' = [ctl EXCEPT !.state = "idle"]
    /\ hist' = Quiet
    /\ UNCHANGED <<election, server, prevLogIndex, mutex, stopChan, heartbeatInterval, timer>>

\* heartbeat (peer.go 140): the ticker at the base interval
LoopMakeTicker(l) ==
    /\ pc[l] = "mkticker"
    /\ heartbeatTicker' = heartbeatInterval
    /\ pc' = [pc EXCEPT ![l] = "select"]
    /\ hist' = Quiet
    /\ UNCHANGED <<election, server, prevLogIndex, mutex, stopChan, heartbeatInterval,
                   failedHeartbeats, loc, ctl>>

\* stopHeartbeat (peer.go 92-94): the send on p.stopChan, which blocks until a
\* goroutine receives from that channel
stopHeartbeat ==
    \E f \in BOOLEAN :
        /\ ctl.state = "idle"
        /\ ctl.active # 0
        /\ ctl' = [ctl EXCEPT !.state = "stopping", !.flush = f]
        /\ hist' = Quiet
        /\ UNCHANGED <<election, server, prevLogIndex, mutex, stopChan, heartbeatInterval,
                       timer, pc, loc>>

\* where the loop goes on a stop signal (peer.go 146-156)
AfterStop_KeepLooping(flush) == IF flush THEN "flush" ELSE "select"
AfterStop_Blocked(flush) == IF flush THEN "flush" ELSE "blocked"
AfterStop(flush) == IF flush THEN "flush" ELSE "done"

\* where the loop goes when flush returns (peer.go 150-152, 160-163)
AfterFlush_Loop(final) == "select"
AfterFlush(final) == IF final THEN "done" ELSE "select"

\* a flush is begun by goroutine l: counted once its stop signal is consumed
BeginFlush(h, l) ==
    IF h.stop[l].sig = "none" THEN h
    ELSE [h EXCEPT !.stop[l].flushes = @ + 1]

\* heartbeat (peer.go 146-156): the stop case of the select
StopConsume(l) ==
    /\ pc[l] = "select"
    /\ ctl.state = "stopping"
    /\ loc[l].stopChan = stopChan
    /\ ctl' = [ctl EXCEPT !.state = "idle", !.active = 0, !.flush = FALSE]
    /\ pc' = [pc EXCEPT ![l] = AfterStop(ctl.flush)]
    /\ loc' = [loc EXCEPT ![l].final = (pc'[l] = "flush")]
    /\ LET h == [Quiet EXCEPT !.stop[l].sig = IF ctl.flush THEN "flush" ELSE "noflush"]
       IN hist' = IF pc'[l] = "flush" THEN BeginFlush(h, l) ELSE h
    /\ UNCHANGED <<election, server, prevLogIndex, mutex, stopChan, heartbeatInterval, timer>>

\* heartbeat (peer.go 158-160): the ticker case of the select
Tick(l) ==
    /\ pc[l] = "select"
    /\ heartbeatTicker # 0
    /\ pc' = [pc EXCEPT ![l] = "flush"]
    /\ loc' = [loc EXCEPT ![l].final = FALSE]
    /\ hist' = LET h == BeginFlush(Quiet, l) IN
               IF h.stop[l].sig = "none" THEN h
               ELSE [h EXCEPT !.stop[l].ticks = @ + 1]
    /\ UNCHANGED <<election, server, prevLogIndex, mutex, stopChan, heartbeatInterval,
                   timer, ctl>>

\* ------------------------------------------------------------- the flush

\* flush returns: the locals of the round trip are dropped
Ended(lc) ==
    [lc EXCEPT !.final = FALSE, !.req = NoReq, !.resp = NoResp, !.lastIndex = 0,
               !.sends = <<>>, !.prev = 0]

\* flush (peer.go 167-179): getPrevLogIndex under the read lock, the server's
\* term, the log's entries after the index, and the first request
FlushStart(l) ==
    /\ pc[l] = "flush"
    /\ mutex = 0
    /\ LET got == getEntriesAfter(log, startIndex, prevLogIndex, MaxLogEntriesPerRequest)
       IN IF FlushSendsAppend(got)
          THEN /\ pc' = [pc EXCEPT ![l] = "ae_wait"]
               /\ loc' = [loc EXCEPT ![l].req = [term |-> currentTerm,
                                                 prevLogIndex |-> prevLogIndex,
                                                 prevLogTerm |-> got.prevTerm,
                                                 entries |-> got.entries],
                                     ![l].sends = <<"append">>,
                                     ![l].prev = prevLogIndex]
          ELSE /\ pc' = [pc EXCEPT ![l] = "snap_wait"]
               /\ loc' = [loc EXCEPT ![l].sends = <<"snapshot">>,
                                     ![l].prev = prevLogIndex]
    /\ hist' = Quiet
    /\ UNCHANGED <<election, server, prevLogIndex, mutex, stopChan, heartbeatInterval,
                   timer, ctl>>

\* backoffHeartbeat (peer.go 104-108)
backoffHeartbeat(failed, interval) ==
    [failed |-> failed + 1, period |-> heartbeatDuration(interval, failed + 1)]

\* resetHeartbeatInterval (peer.go 97-101)
resetHeartbeatInterval(interval) == [failed |-> 0, period |-> interval]

\* sendAppendEntriesRequest (peer.go 190-196): no response
AENoResponse(l) ==
    /\ pc[l] = "ae_wait"
    /\ failedHeartbeats < MaxFailed
    /\ LET b == backoffHeartbeat(failedHeartbeats, heartbeatInterval) IN
        /\ failedHeartbeats' = b.failed
        /\ heartbeatTicker' = b.period
    /\ pc' = [pc EXCEPT ![l] = AfterFlush(loc[l].final)]
    /\ loc' = [loc EXCEPT ![l] = Ended(loc[l])]
    /\ hist' = Ev(hist, "silent", Access(l, mutex, "failedHeartbeats"))
    /\ UNCHANGED <<election, server, prevLogIndex, mutex, stopChan, heartbeatInterval, ctl>>

\* what the transport may hand back for an append-entries request; peer.go
\* reads the commit index and the conflict index of a failure only
Responses ==
    [success : {FALSE}, term : Terms, commitIndex : Indexes, index : Indexes,
     append : {FALSE}, peer : {FALSE}]
    \cup [success : {TRUE}, term : Terms, commitIndex : {0}, index : {0},
          append : {FALSE}, peer : {FALSE}]

\* the response as the goroutine holds it for the server: its success flag
\* and the marker set on it (its other fields are handed on as received)
Forwarded(r, marker) == [NoResp EXCEPT !.success = r.success, !.append = marker]

\* sendAppendEntriesRequest (peer.go 198-250): a response; the back-off is
\* reset if it is on, then under p.mutex prevLogIndex is reconciled. The reset
\* touches failedHeartbeats and the ticker only, which no holder of p.mutex
\* touches, so it is taken in one step with Lock and the locked section; the
\* step waits for p.mutex.
AEResponse(l) ==
    \E r \in Responses :
        /\ pc[l] = "ae_wait"
        /\ mutex = 0
        /\ IF failedHeartbeats # 0
           THEN LET b == resetHeartbeatInterval(heartbeatInterval) IN
                /\ failedHeartbeats' = b.failed
                /\ heartbeatTicker' = b.period
           ELSE UNCHANGED timer
        /\ mutex' = l
        /\ prevLogIndex' = Reconcile(prevLogIndex, loc[l].req, r, currentTerm)
        /\ loc' = [loc EXCEPT
                ![l].resp = Forwarded(r,
                                AppendMarker(r.success, loc[l].req.entries, currentTerm))]
        /\ pc' = [pc EXCEPT ![l] = "ae_locked"]
        /\ hist' = [Ev(hist, "none", Access(l, mutex, "failedHeartbeats")
                                     \cup Access(l, mutex', "prevLogIndex"))
                    EXCEPT !.rec = [done |-> TRUE, req |-> loc[l].req, resp |-> r,
                                    localTerm |-> currentTerm,
                                    before |-> prevLogIndex, after |-> prevLogIndex']]
        /\ UNCHANGED <<election, server, stopChan, heartbeatInterval, ctl>>

\* sendAppendEntriesRequest (peer.go 251-256): Unlock, the peer's name on the
\* response, and the response handed to the server
AEUnlock(l) ==
    /\ pc[l] = "ae_locked"
    /\ mutex' = 0
    /\ pc' = [pc EXCEPT ![l] = AfterFlush(loc[l].final)]
    /\ loc' = [loc EXCEPT ![l] = Ended(loc[l])]
    /\ hist' = [Ev(hist, "answered", {})
                EXCEPT !.fwd = sendAsync(<<>>, "AppendEntriesResponse",
                                        AttachPeer(loc[l].resp))]
    /\ UNCHANGED <<election, server, prevLogIndex, stopChan, heartbeatInterval,
                   timer, ctl>>

\* sendSnapshotRequest (peer.go 263-267): no response
SnapNoResponse(l) ==
    /\ pc[l] = "snap_wait"
    /\ pc' = [pc EXCEPT ![l] = AfterFlush(loc[l].final)]
    /\ loc' = [loc EXCEPT ![l] = Ended(loc[l])]
    /\ hist' = [Ev(hist, "silent", {}) EXCEPT !.snap.out = "offer_nil"]
    /\ UNCHANGED <<election, server, prevLogIndex, mutex, stopChan,
                   heartbeatInterval, timer, ctl>>

\* sendSnapshotRequest (peer.go 273-278) and sendSnapshotRecoveryRequest
\* (peer.go 284-286): the offer is answered; accepted, the recovery request is
\* built from the server's snapshot and sent
SnapResponse(l) ==
    \E ok \in BOOLEAN :
        /\ pc[l] = "snap_wait"
        /\ IF ok
           THEN /\ pc' = [pc EXCEPT ![l] = "rec_wait"]
                /\ loc' = [loc EXCEPT ![l].lastIndex = startIndex,
                                      ![l].sends = Append(@, "recovery")]
                /\ hist' = [Quiet EXCEPT !.snap = [out |-> "offer_accept",
                                                   last |-> startIndex]]
           ELSE /\ pc' = [pc EXCEPT ![l] = AfterFlush(loc[l].final)]
                /\ loc' = [loc EXCEPT ![l] = Ended(loc[l])]
                /\ hist' = [Ev(hist, "answered", {})
                            EXCEPT !.snap.out = "offer_reject"]
        /\ UNCHANGED <<election, server, prevLogIndex, mutex, stopChan, heartbeatInterval,
                       timer, ctl>>

\* sendSnapshotRecoveryRequest (peer.go 288-291): no response to the recovery
\* request of a flush whose offer the peer answered
RecNoResponse(l) ==
    /\ pc[l] = "rec_wait"
    /\ pc' = [pc EXCEPT ![l] = AfterFlush(loc[l].final)]
    /\ loc' = [loc EXCEPT ![l] = Ended(loc[l])]
    /\ hist' = [Ev(hist, "answered", {})
                EXCEPT !.snap = [out |-> "recovery_nil", last |-> loc[l].lastIndex]]
    /\ UNCHANGED <<election, server, prevLogIndex, mutex, stopChan, heartbeatInterval,
                   timer, ctl>>

\* sendSnapshotRecoveryRequest (peer.go 293-300): the recovery is answered;
\* on success prevLogIndex is assigned, with p.mutex not taken
RecResponse(l) ==
    \E ok \in BOOLEAN :
        /\ pc[l] = "rec_wait"
        /\ prevLogIndex' = RecoveryUpdate(prevLogIndex, loc[l].lastIndex, ok)
        /\ IF ok
           THEN hist' = [Ev(hist, "answered", Access(l, mutex, "prevLogIndex"))
                         EXCEPT !.snap = [out |-> "recovery_ok",
                                          last |-> loc[l].lastIndex],
                                !.fwd = sendAsync(<<>>, "SnapshotRecoveryResponse",
                                                  [NoResp EXCEPT !.success = TRUE])]
           ELSE hist' = [Ev(hist, "answered", {})
                         EXCEPT !.snap = [out |-> "recovery_reject",
                                          last |-> loc[l].lastIndex]]
        /\ pc' = [pc EXCEPT ![l] = AfterFlush(loc[l].final)]
        /\ loc' = [loc EXCEPT ![l] = Ended(loc[l])]
        /\ UNCHANGED <<election, server, mutex, stopChan, heartbeatInterval, timer, ctl>>

\* ------------------------------------------------------- vote requests

\* resp.peer = p (peer.go 313)
VoteTag_Untagged(resp, q) == resp
VoteTag(resp, q) == [resp EXCEPT !.peer = q]

\* sendVoteRequest (peer.go 308-311) is called for peer q, on its own
\* goroutine, up to the transport's call
sendVoteRequest(q) ==
    /\ vote[q].pc = "idle"
    /\ vote' = [vote EXCEPT ![q].pc = "sent"]
    /\ UNCHANGED <<replication, results>>

\* sendVoteRequest (peer.go 315-317): the transport returned nil
VoteNoResponse(q) ==
    /\ vote[q].pc = "sent"
    /\ vote' = [vote EXCEPT ![q].pc = "done"]
    /\ UNCHANGED <<replication, results>>

\* sendVoteRequest (peer.go 311-312): the transport returned a response
VoteResponse(q) ==
    \E g \in BOOLEAN :
        /\ vote[q].pc = "sent"
        /\ vote' = [vote EXCEPT ![q] = [pc |-> "got", responded |-> TRUE,
                                        granted |-> g]]
        /\ UNCHANGED <<replication, results>>

\* sendVoteRequest (peer.go 313-314): the peer on the response, and the send
\* on c, which has room for one response of every peer
VoteDeliver(q) ==
    /\ vote[q].pc = "got"
    /\ results' = Append(results,
                         VoteTag([peer |-> 0, granted |-> vote[q].granted], q))
    /\ vote' = [vote EXCEPT ![q].pc = "done"]
    /\ UNCHANGED replication

\* ------------------------------------------------------- specification

\* the server and the callers of setPrevLogIndex
Server ==
    \/ IncTerm
    \/ AppendLog
    \/ Compact
    \/ setPrevLogIndex

\* the heartbeat goroutines, up to the select
Loop ==
    \/ \E l \in Loops : LoopHandshake(l)
    \/ \E l \in Loops : LoopMakeTicker(l)
    \/ \E l \in Loops : Tick(l)

\* the flush and the transport's answers
Flush ==
    \/ \E l \in Loops : FlushStart(l)
    \/ \E l \in Loops : AENoResponse(l)
    \/ \E l \in Loops : AEResponse(l)
    \/ \E l \in Loops : AEUnlock(l)
    \/ \E l \in Loops : SnapNoResponse(l)
    \/ \E l \in Loops : SnapResponse(l)
    \/ \E l \in Loops : RecNoResponse(l)
    \/ \E l \in Loops : RecResponse(l)

\* the stop signal
Stop ==
    \/ stopHeartbeat
    \/ \E l \in Loops : StopConsume(l)

\* replication: one heartbeat loop that runs on, beside a server whose term
\* and log move and callers that set prevLogIndex
Next ==
    \/ Server
    \/ startHeartbeat(1)
    \/ Loop
    \/ Flush

Spec == Init /\ [][Next]_vars

\* the schedule of one loop: started, its interval set, and stopped, beside a
\* server that stands still
NextStop ==
    \/ startHeartbeat(1)
    \/ setHeartbeatInterval
    \/ Stop
    \/ Loop
    \/ Flush

SpecStop == Init /\ [][NextStop]_vars

\* the same, with every goroutine that can step stepping in the end, every
\* transport call returning, and the stop case of the select (peer.go 146)
\* taken in the end when a signal waits each time the loop is at the select
SpecStopFair ==
    /\ SpecStop
    /\ WF_vars(Loop)
    /\ WF_vars(Flush)
    /\ SF_vars(\E l \in Loops : StopConsume(l))

\* the schedule of one loop, beside callers of clone
NextClone ==
    \/ NextStop
    \/ clone

SpecClone == Init /\ [][NextClone]_vars

\* one election round: a sendVoteRequest goroutine for each peer, all
\* sending on one channel
NextVote ==
    \/ \E q \in Peers : sendVoteRequest(q)
    \/ \E q \in Peers : VoteNoResponse(q)
    \/ \E q \in Peers : VoteResponse(q)
    \/ \E q \in Peers : VoteDeliver(q)

SpecVote == Init /\ [][NextVote]_vars

\* the schedule over alternating calls of startHeartbeat and stopHeartbeat
NextRestart ==
    \/ startHeartbeat(MaxStarts)
    \/ setHeartbeatInterval
    \/ Stop
    \/ Loop
    \/ Flush

SpecRestart == Init /\ [][NextRestart]_vars

\* ---------------------------------------------------------------- claims

\* the reconciliation made by the step just taken
R == hist.rec
Failed(r) == r.done /\ ~r.resp.success
LastOf(entries) == entries[Len(entries)]
InFlight == {l \in Loops : pc[l] \in FlushPcs}

\* C1: a failure whose term is at most the local term and whose commit index
\* is below prevLogIndex sets prevLogIndex to min(old - 1, conflict index),
\* which is lower than the old value and not below zero; and a failure that
\* reaches the decrement rule with prevLogIndex at 0 leaves it at 0.
C1_DecrementClamp ==
    Failed(R) /\ R.resp.term <= R.localTerm =>
        /\ R.resp.commitIndex < R.before =>
              /\ R.after = Min(R.before - 1, R.resp.index)
              /\ R.after < R.before
              /\ R.after >= 0
        /\ (R.before = 0 /\ R.resp.term # R.req.term) => R.after = 0

\* C1's case: a failure that decrements and then clamps to the conflict index
C1_Witness ==
    /\ Failed(R) /\ R.resp.term <= R.localTerm
    /\ R.resp.commitIndex < R.before
    /\ R.resp.index < R.before - 1
    /\ R.after = R.resp.index

\* C2: a success for a request with entries sets prevLogIndex to the index of
\* the request's last entry; a success for a request without entries leaves
\* prevLogIndex as it was.
C2_SuccessAdvance ==
    R.done /\ R.resp.success =>
        IF Len(R.req.entries) > 0
        THEN R.after = LastOf(R.req.entries).index
        ELSE R.after = R.before

\* C2's case: a success for a request that carried two entries
C2_Witness ==
    /\ R.done /\ R.resp.success
    /\ Len(R.req.entries) = 2
    /\ R.after = R.req.prevLogIndex + 2
    /\ R.after # R.before + 1

\* C3: a failure whose term equals the request's term, is not above the local
\* term, and whose commit index is at least prevLogIndex sets prevLogIndex to
\* that commit index: no decrement, no clamp to the conflict index.
C3_LostAckRecovery ==
    (/\ Failed(R)
     /\ R.resp.term = R.req.term
     /\ R.resp.term <= R.localTerm
     /\ R.resp.commitIndex >= R.before) => R.after = R.resp.commitIndex

\* C3's case: the commit index is above prevLogIndex and the conflict index
\* below it
C3_Witness ==
    /\ Failed(R)
    /\ R.resp.term = R.req.term
    /\ R.resp.term <= R.localTerm
    /\ R.resp.commitIndex > R.before
    /\ R.resp.index < R.before
    /\ R.after = R.resp.commitIndex

\* C4: a failure whose term is above the local term leaves prevLogIndex as it
\* was, whatever its commit index and conflict index.
C4_StaleTermFrame ==
    (Failed(R) /\ R.resp.term > R.localTerm) => R.after = R.before

\* C4's case: a stale-term failure whose indexes would move prevLogIndex
C4_Witness ==
    /\ Failed(R) /\ R.resp.term > R.localTerm
    /\ R.before > 1
    /\ R.resp.index < R.before - 1
    /\ R.resp.commitIndex >= R.before
    /\ R.after = R.before

\* C5: every flush that gets no response adds one to failedHeartbeats and
\* sets the timer to heartbeatInterval * 2^failedHeartbeats, so that the k-th
\* in a row leaves failedHeartbeats at k; a flush that gets a response leaves
\* failedHeartbeats at 0 and the timer at heartbeatInterval.
C5_BackoffRun ==
    [][/\ hist'.event = "silent" =>
            /\ failedHeartbeats' = failedHeartbeats + 1
            /\ heartbeatTicker' = heartbeatInterval * Pow2(failedHeartbeats')
       /\ hist'.event = "answered" =>
            /\ failedHeartbeats' = 0
            /\ heartbeatTicker' = heartbeatInterval]_vars

\* C6: after any flush in which the peer returned a response, of whatever
\* kind, failedHeartbeats is 0 and the timer is at a base interval; and
\* failedHeartbeats goes to 0 only in a step that received a response.
C6_ResetOnRoundTrip ==
    [][/\ hist'.event = "answered" =>
            /\ failedHeartbeats' = 0
            /\ heartbeatTicker' \in Intervals
       /\ (failedHeartbeats # 0 /\ failedHeartbeats' = 0) => hist'.rec.done]_vars

\* C7: a loop that has consumed a stop signal carrying flush=true begins
\* exactly one more flush and is then done; one that has consumed flush=false
\* is done and begins none; neither serves a tick after the signal.
C7_StopWithFlush ==
    \A l \in Loops :
        LET st == hist.stop[l] IN
        /\ st.sig = "noflush" => (pc[l] = "done" /\ st.flushes = 0)
        /\ st.sig = "flush" => (st.flushes = 1 /\ pc[l] \in FlushPcs \cup {"done"})
        /\ st.ticks = 0

\* C7's case: a loop stopped with flush=true has made its last flush and exited
C7_Witness ==
    \E l \in Loops :
        /\ hist.stop[l].sig = "flush"
        /\ hist.stop[l].flushes = 1
        /\ pc[l] = "done"

\* C8: at most one flush of the peer is in flight, over alternating calls of
\* startHeartbeat and stopHeartbeat.
C8_OneFlushInFlight == Cardinality(InFlight) <= 1

\* C9: no step reads or writes prevLogIndex or failedHeartbeats without
\* p.mutex held.
C9_AccessUnderLock == hist.lockFree = {}

\* C10: the first request of a flush is a snapshot offer exactly when
\* getEntriesAfter returns nil for prevLogIndex; otherwise, and also for an
\* empty batch, it is an append-entries request that carries the prevLogIndex
\* read and the batch, and the flush sends no snapshot offer.
C10_SnapshotFallback ==
    /\ [](\A l \in Loops :
            /\ pc[l] \in {"ae_wait", "ae_locked"} => loc[l].sends = <<"append">>
            /\ pc[l] = "snap_wait" => loc[l].sends = <<"snapshot">>
            /\ pc[l] = "rec_wait" => loc[l].sends = <<"snapshot", "recovery">>)
    /\ [][\A l \in Loops :
            (pc[l] = "flush" /\ pc'[l] # "flush") =>
                LET got == getEntriesAfter(log, startIndex, prevLogIndex,
                                           MaxLogEntriesPerRequest) IN
                IF got.nil
                THEN pc'[l] = "snap_wait" /\ loc'[l].sends = <<"snapshot">>
                ELSE /\ pc'[l] = "ae_wait"
                     /\ loc'[l].sends = <<"append">>
                     /\ loc'[l].req.prevLogIndex = prevLogIndex
                     /\ loc'[l].req.entries = got.entries]_vars

\* C10's case: the log holds nothing after prevLogIndex, and the flush sends
\* an append-entries request with an empty batch
C10_Witness ==
    \E l \in Loops :
        /\ pc[l] = "ae_wait"
        /\ loc[l].req.entries = <<>>
        /\ loc[l].sends = <<"append">>
        /\ loc[l].req.prevLogIndex >= startIndex

\* the steps of the snapshot hand-off made by goroutine l
SnapStep(l) == pc[l] \in {"snap_wait", "rec_wait"} /\ pc'[l] # pc[l]

\* C11: a recovery request is sent only in a flush that sent a snapshot offer
\* first, and only by the step in which that offer was accepted; a step of
\* the snapshot hand-off changes prevLogIndex only when it is a successful
\* recovery response, and then sets it to the LastIndex of the snapshot sent
\* and hands that response to the server; on no response and on rejection,
\* in either phase, prevLogIndex stays and nothing is handed to the server.
C11_SnapshotHandOff ==
    /\ [](\A l \in Loops :
            pc[l] = "rec_wait" => loc[l].sends = <<"snapshot", "recovery">>)
    /\ [][\A l \in Loops :
            /\ (pc'[l] = "rec_wait" /\ pc[l] # "rec_wait") =>
                    /\ pc[l] = "snap_wait"
                    /\ hist'.snap.out = "offer_accept"
                    /\ loc'[l].lastIndex = startIndex
            /\ SnapStep(l) =>
                    IF hist'.snap.out = "recovery_ok"
                    THEN /\ pc[l] = "rec_wait"
                         /\ prevLogIndex' = loc[l].lastIndex
                         /\ Len(hist'.fwd) = 1
                         /\ hist'.fwd[1].type = "SnapshotRecoveryResponse"
                    ELSE /\ prevLogIndex' = prevLogIndex
                         /\ hist'.fwd = <<>>]_vars

\* C11's case: a recovery request was rejected while prevLogIndex was not at
\* the snapshot's LastIndex, and prevLogIndex stayed where it was
C11_Witness ==
    /\ hist.snap.out = "recovery_reject"
    /\ hist.snap.last > prevLogIndex
    /\ hist.fwd = <<>>

\* the append-entries responses among what the step just taken handed over
HandedAppend(h) ==
    {i \in 1..Len(h.fwd) : h.fwd[i].type = "AppendEntriesResponse"}

\* C12: an append-entries request that gets a response hands it to the
\* server once, when the reconciliation is over, with the peer's name on it
\* and its success flag as received, whatever the reconciliation did; one
\* that gets no response hands nothing over and leaves prevLogIndex as it
\* was; and no other step hands an append-entries response to the server.
C12_ForwardOnce ==
    [][/\ \A l \in Loops :
            /\ (pc[l] = "ae_wait" /\ pc'[l] = "ae_locked") =>
                    /\ hist'.fwd = <<>>
                    /\ hist'.rec.done
                    /\ loc'[l].resp.success = hist'.rec.resp.success
            /\ (pc[l] = "ae_wait" /\ pc'[l] \notin {"ae_wait", "ae_locked"}) =>
                    /\ hist'.fwd = <<>>
                    /\ prevLogIndex' = prevLogIndex
            /\ (pc[l] = "ae_locked" /\ pc'[l] # "ae_locked") =>
                    /\ pc'[l] \notin FlushPcs \/ pc'[l] = "flush"
                    /\ Len(hist'.fwd) = 1
                    /\ HandedAppend(hist') = {1}
                    /\ hist'.fwd[1].resp.peer
                    /\ hist'.fwd[1].resp.success = loc[l].resp.success
       /\ HandedAppend(hist') # {} =>
            \E l \in Loops : pc[l] = "ae_locked" /\ pc'[l] # "ae_locked"]_vars

\* C12's case: a failure response has just been handed to the server, named
C12_Witness ==
    /\ HandedAppend(hist) = {1}
    /\ ~hist.fwd[1].resp.success
    /\ hist.fwd[1].resp.peer
    /\ hist.event = "answered"

\* the reconciliation r took the third failure rule, and decremented
DecrementRule(r) ==
    /\ Failed(r)
    /\ r.resp.term <= r.localTerm
    /\ ~(r.resp.term = r.req.term /\ r.resp.commitIndex >= r.before)
    /\ r.before > 0

\* a step of the flush of goroutine l, after the flush has read prevLogIndex
FlushStep(l) == pc[l] \in FlushPcs \ {"flush"} /\ pc'[l] # pc[l]

\* C13: a step of a flush changes prevLogIndex only when it reconciles an
\* append-entries response or receives a successful recovery response; and
\* in a flush during which nothing else has written prevLogIndex, a step
\* leaves prevLogIndex below the value the flush read only when it is the
\* decrement of the third failure rule: not on a success, not under the
\* stale-term rule or the lost-acknowledgment rule, not on a missing
\* response, and not on any outcome of the snapshot hand-off.
C13_DecreaseOnlyByDecrement ==
    [][\A l \in Loops :
        FlushStep(l) =>
            /\ prevLogIndex' # prevLogIndex =>
                    hist'.rec.done \/ hist'.snap.out = "recovery_ok"
            /\ (prevLogIndex = loc[l].prev /\ prevLogIndex' < loc[l].prev) =>
                    DecrementRule(hist'.rec)]_vars

\* C13's case: the decrement rule has lowered the prevLogIndex that the flush
\* read and built its request on
C13_Witness ==
    /\ DecrementRule(R)
    /\ R.before = R.req.prevLogIndex
    /\ R.after < R.before

\* the heartbeat goroutine l is in its loop, or on its way into it
Live(l) == pc[l] \in {"mkticker", "select"} \cup FlushPcs

\* C14: once startHeartbeat has returned, the goroutine it launched is live
\* and holds the stop channel that call created; a stopHeartbeat issued then
\* returns in the end, in the very step in which the goroutine takes the
\* signal from the channel, whether or not a last flush follows; and a
\* goroutine that has taken the signal is done in the end.
C14_StartStopHandshake ==
    /\ []((ctl.state # "starting" /\ ctl.active # 0) =>
            /\ Live(ctl.active)
            /\ stopChan = ctl.active
            /\ loc[ctl.active].stopChan = stopChan)
    /\ ((ctl.state = "stopping") ~> (ctl.state = "idle" /\ ctl.active = 0))
    /\ \A l \in Loops : (hist.stop[l].sig # "none") ~> (pc[l] = "done")
    /\ [][(ctl.state = "stopping" /\ ctl'.state # "stopping") =>
            /\ ctl'.state = "idle"
            /\ \E l \in Loops :
                    /\ pc[l] = "select"
                    /\ loc[l].stopChan = stopChan
                    /\ hist.stop[l].sig = "none"
                    /\ hist'.stop[l].sig # "none"]_vars

\* C14's case: stopHeartbeat(true) has returned while the goroutine's last
\* flush is still waiting for the peer
C14_Witness ==
    /\ ctl.state = "idle"
    /\ ctl.active = 0
    /\ \E l \in Loops :
            /\ hist.stop[l].sig = "flush"
            /\ pc[l] \in {"ae_wait", "snap_wait", "rec_wait"}

\* C15: before the first startHeartbeat the stop channel and the ticker are
\* absent; while a heartbeat goroutine is in its loop both are set; and once
\* every goroutine started has returned on a stop both are absent again.
\* (The time between startHeartbeat's first line and the goroutine's arrival
\* at the select, in which the fields are set one after the other, is left
\* out of the statement.)
C15_ScheduleIffActive ==
    /\ (\A l \in Loops : pc[l] = "none") =>
            (stopChan = 0 /\ heartbeatTicker = 0)
    /\ (\E l \in Loops : pc[l] \in {"select"} \cup FlushPcs) =>
            (stopChan # 0 /\ heartbeatTicker # 0)
    /\ ((\E l \in Loops : pc[l] = "done")
        /\ (\A l \in Loops : pc[l] \in {"none", "done"})) =>
            (stopChan = 0 /\ heartbeatTicker = 0)

\* C16: every copy made by clone has the peer's name, connection string and
\* prevLogIndex, no stop channel, no ticker, no failed heartbeats and no
\* server; two calls back to back make two equal copies; and a call of
\* clone changes no field of the peer, whatever the loop is doing.
C16_CloneDetached ==
    /\ [](\A i \in 1..Len(hist.clones) :
            LET c == hist.clones[i] IN
            /\ c.Name = PeerName
            /\ c.ConnectionString = PeerConnectionString
            /\ c.prevLogIndex = prevLogIndex
            /\ c.stopChan = 0
            /\ c.heartbeatTicker = 0
            /\ c.failedHeartbeats = 0
            /\ ~c.server)
    /\ [](Len(hist.clones) = 2 => hist.clones[1] = hist.clones[2])
    /\ [][hist'.clones # <<>> =>
            /\ ThePeer' = ThePeer
            /\ mutex' = mutex
            /\ UNCHANGED <<pc, loc, ctl, server>>
            /\ Len(hist'.clones) = Min(Len(hist.clones) + 1, 2)]_vars

\* C16's case: clone has run twice in a row on a peer whose loop is running,
\* backed off, with a prevLogIndex above zero
C16_Witness ==
    /\ Len(hist.clones) = 2
    /\ failedHeartbeats > 0
    /\ prevLogIndex > 0
    /\ stopChan # 0
    /\ heartbeatTicker # 0
    /\ \E l \in Loops : pc[l] \in {"select"} \cup FlushPcs

\* the places on the channel of the responses tagged with peer q
Delivered(q) == {i \in 1..Len(results) : results[i].peer = q}
Responders == {q \in Peers : vote[q].responded}

\* C17: every response on the channel is tagged with a peer; a call that
\* has returned has put one response on the channel, the one it received,
\* if the transport returned one, and none if it returned none; a call that
\* has not returned has put none; and when all calls have returned the
\* channel has carried as many responses as there are peers that responded.
C17_VoteDelivery ==
    /\ \A i \in 1..Len(results) : results[i].peer \in Peers
    /\ \A q \in Peers :
            /\ vote[q].pc = "done" =>
                    Cardinality(Delivered(q)) = IF vote[q].responded THEN 1 ELSE 0
            /\ vote[q].pc # "done" => Delivered(q) = {}
            /\ \A i \in Delivered(q) : results[i].granted = vote[q].granted
    /\ (\A q \in Peers : vote[q].pc = "done") =>
            Len(results) = Cardinality(Responders)

\* C17's case: all calls have returned, some peers responded and some did
\* not, and the channel has carried fewer responses than there are peers
C17_Witness ==
    /\ \A q \in Peers : vote[q].pc = "done"
    /\ Responders # {}
    /\ Responders # Peers
    /\ Len(results) = Cardinality(Responders)
    /\ Len(results) < MaxPeers

\* a failure response such as a follower builds it: its term is not below
\* the request's, and its conflict index (the end of its log) is not below
\* its commit index
FollowerLike(r) ==
    /\ r.resp.term >= r.req.term
    /\ r.resp.index >= r.resp.commitIndex

\* C18: when the third failure rule decrements prevLogIndex (and clamps it
\* to the conflict index), the result is not below the commit index that the
\* response reports. Stated for the responses a follower builds; the code
\* takes any.
C18_NotBelowCommit ==
    (DecrementRule(R) /\ FollowerLike(R)) => R.after >= R.resp.commitIndex

\* C19: the reconciliation sets the append marker on the response exactly
\* when the response is a success, the request carried entries and the last
\* of them has the server's current term; and the response handed to the
\* server carries the marker as the reconciliation left it.
C19_AppendMarker ==
    [][\A l \in Loops :
        /\ (pc[l] = "ae_wait" /\ pc'[l] = "ae_locked") =>
                LET rq == loc[l].req IN
                loc'[l].resp.append <=>
                    /\ hist'.rec.resp.success
                    /\ Len(rq.entries) > 0
                    /\ LastOf(rq.entries).term = currentTerm
        /\ (pc[l] = "ae_locked" /\ pc'[l] # "ae_locked") =>
                /\ HandedAppend(hist') = {1}
                /\ hist'.fwd[1].resp.append = loc[l].resp.append
                /\ hist'.fwd[1].resp.append => hist'.fwd[1].resp.success]_vars

\* C19's case: a success for a request whose last entry is of an earlier
\* term than the server's, and no marker on the response
C19_Witness ==
    /\ R.done /\ R.resp.success
    /\ Len(R.req.entries) > 0
    /\ LastOf(R.req.entries).term < R.localTerm
    /\ \E l \in Loops : pc[l] = "ae_locked" /\ ~loc[l].resp.append

\* the interval a ticker was made from: its period without the factor 2^k
\* (the intervals are odd)
RECURSIVE IntervalOf(_)
IntervalOf(period) ==
    IF period > 0 /\ period % 2 = 0 THEN IntervalOf(period \div 2) ELSE period

Running == {l \in Loops : pc[l] \notin {"none", "done"}}

\* C20: while the one running heartbeat goroutine waits at its select, and
\* the ticker was made from the heartbeatInterval of now, the ticker's
\* period is heartbeatInterval * 2^failedHeartbeats; over ticks, responses,
\* missing responses, snapshot hand-offs, and stops followed by starts.
C20_PeriodMatchesBackoff ==
    \A l \in Loops :
        (/\ pc[l] = "select"
         /\ Running = {l}
         /\ IntervalOf(heartbeatTicker) = heartbeatInterval) =>
            heartbeatTicker = heartbeatDuration(heartbeatInterval, failedHeartbeats)

====
